---- MODULE Spec2Model ----
(***************************************************************************)
(* A model of the chess rules engine of src/src/main.rs: the board, the    *)
(* move generator get_moves with its check filter, the check detector      *)
(* is_checked, move_to, has_no_valid_moves and the control loop of main.   *)
(* A Location is <<x, y>> (file, row); row 0 is Black's back rank.         *)
(* A function of the source that can panic returns a record with a field   *)
(* "panic"; the other fields mean something only when panic is FALSE.      *)
(***************************************************************************)
EXTENDS Integers, Sequences, FiniteSets, TLC

\* ------------------------------------------------------------------ bounds

\* The number of accepted moves a run of the game may hold.
MaxPly == 5

\* The plies of a game the longer play follows.
MaxDeepPly == 6

\* ------------------------------------------------------------- data model

Colors == {"Black", "White"}

PieceKinds == {"Pawn", "Knight", "Bishop", "Rook", "Queen", "King"}

\* Option<Piece>::None, as a record so that it compares with every piece.
None == [kind |-> "None", color |-> "None"]

P(kind, color) == [kind |-> kind, color |-> color]

\* Option<Location>::None, and the value get_king_location stands for when it
\* finds no king (the source panics there).
NoneLoc == <<-1, -1>>

Squares == (0..7) \X (0..7)

Add(loc, d) == <<loc[1] + d[1], loc[2] + d[2]>>

Opposite(color) == IF color = "Black" THEN "White" ELSE "Black"

is_out_of_bounds(loc) == loc[1] < 0 \/ loc[2] < 0 \/ loc[1] > 7 \/ loc[2] > 7

BackRank == <<"Rook", "Knight", "Bishop", "Queen", "King", "Bishop", "Knight", "Rook">>

\* A Board is the array of the source: eight rows of eight cells, row first.
BOARD == [j \in 1..8 |-> [i \in 1..8 |-> CASE j = 1 -> P(BackRank[i], "Black") [] j = 2 -> P("Pawn", "Black") [] j = 7 -> P("Pawn", "White") [] j = 8 -> P(BackRank[i], "White") [] OTHER -> None]]

\* Index<Location> and Index<(i8, i8)> for Board: self.0[index.1][index.0].
At(board, loc) == board[loc[2] + 1][loc[1] + 1]

\* IndexMut<Location> for Board, followed by the assignment of piece.
Put(board, loc, piece) == [board EXCEPT ![loc[2] + 1][loc[1] + 1] = piece]

\* ------------------------------------------------- get_moves: the patterns

BlackPawnDirs == <<<<1, 1>>, <<-1, 1>>>>

WhitePawnDirs == <<<<-1, -1>>, <<1, -1>>>>

KnightTiles == <<<<-1, -2>>, <<1, -2>>, <<2, -1>>, <<2, 1>>, <<1, 2>>, <<-1, 2>>, <<-2, 1>>, <<-2, -1>>>>

KingTiles == <<<<-1, 0>>, <<-1, -1>>, <<0, -1>>, <<1, -1>>, <<1, 0>>, <<1, 1>>, <<0, 1>>, <<-1, 1>>>>

DiagDirs == <<<<-1, -1>>, <<1, -1>>, <<1, 1>>, <<-1, 1>>>>

RookDirs == <<<<-1, 0>>, <<0, -1>>, <<1, 0>>, <<0, 1>>>>

\* The loop over the two forward diagonals of a pawn off its home rank: the
\* first one that is on the board and equals the en-passant target.
RECURSIVE EnPassantScan(_, _, _, _)
EnPassantScan(loc, dirs, i, game) ==
  IF i > Len(dirs) THEN <<>>
  ELSE IF ~is_out_of_bounds(Add(loc, dirs[i])) /\ game.cur_en_passant = Add(loc, dirs[i])
       THEN <<dirs[i]>>
       ELSE EnPassantScan(loc, dirs, i + 1, game)

\* Pawn moves with the en-passant scan made on the starting rank as well.
PawnMoves_ScanOnHomeRank(loc, piece, game) ==
  IF piece.color = "Black"
  THEN LET ep == EnPassantScan(loc, BlackPawnDirs, 1, game)
       IN IF ep # <<>> THEN ep ELSE IF loc[2] = 1 THEN <<<<0, 1>>, <<0, 2>>>> ELSE <<<<0, 1>>>>
  ELSE LET ep == EnPassantScan(loc, WhitePawnDirs, 1, game)
       IN IF ep # <<>> THEN ep ELSE IF loc[2] = 8 - 2 THEN <<<<0, -1>>, <<0, -2>>>> ELSE <<<<0, -1>>>>

PawnMoves(loc, piece, game) ==
  IF piece.color = "Black"
  THEN IF loc[2] = 1 THEN <<<<0, 1>>, <<0, 2>>>>
       ELSE LET ep == EnPassantScan(loc, BlackPawnDirs, 1, game)
            IN IF ep = <<>> THEN <<<<0, 1>>>> ELSE ep
  ELSE IF loc[2] = 8 - 2 THEN <<<<0, -1>>, <<0, -2>>>>
       ELSE LET ep == EnPassantScan(loc, WhitePawnDirs, 1, game)
            IN IF ep = <<>> THEN <<<<0, -1>>>> ELSE ep

\* Knight and king: the fixed tiles that are on the board and hold no piece of
\* the mover's colour.
TileOk(board, loc, piece, tile) ==
  /\ ~is_out_of_bounds(Add(loc, tile))
  /\ (At(board, Add(loc, tile)) = None \/ At(board, Add(loc, tile)).color # piece.color)

TileMoves(board, loc, piece, tiles) ==
  LET Ok(tile) == TileOk(board, loc, piece, tile) IN SelectSeq(tiles, Ok)

\* A walk that takes the piece it stops on whatever its colour.
StopIsCapture_AnyColor(board, new_loc, piece) ==
  /\ ~is_out_of_bounds(new_loc)
  /\ At(board, new_loc) # None

\* Whether the square a walk stopped on, when on the board, is a capture.
StopIsCapture(board, new_loc, piece) ==
  /\ ~is_out_of_bounds(new_loc)
  /\ At(board, new_loc) # None
  /\ At(board, new_loc).color # piece.color

\* One direction of a sliding walk, from the displacement `change` on.
RECURSIVE Walk(_, _, _, _, _)
Walk(board, loc, piece, dir, change) ==
  LET new_loc == Add(loc, change)
  IN IF ~is_out_of_bounds(new_loc) /\ At(board, new_loc) = None
     THEN <<change>> \o Walk(board, loc, piece, dir, Add(change, dir))
     ELSE IF StopIsCapture(board, new_loc, piece) THEN <<change>> ELSE <<>>

RECURSIVE SlideMoves(_, _, _, _, _)
SlideMoves(board, loc, piece, dirs, i) ==
  IF i > Len(dirs) THEN <<>>
  ELSE Walk(board, loc, piece, dirs[i], dirs[i]) \o SlideMoves(board, loc, piece, dirs, i + 1)

\* The match on piece.kind of get_moves: the moves before the check filter.
PatternMoves(loc, game) ==
  LET board == game.board
      piece == At(board, loc)
  IN CASE piece.kind = "Pawn" -> PawnMoves(loc, piece, game)
       [] piece.kind = "Knight" -> TileMoves(board, loc, piece, KnightTiles)
       [] piece.kind = "Bishop" -> SlideMoves(board, loc, piece, DiagDirs, 1)
       [] piece.kind = "Rook" -> SlideMoves(board, loc, piece, RookDirs, 1)
       [] piece.kind = "Queen" -> SlideMoves(board, loc, piece, DiagDirs, 1) \o SlideMoves(board, loc, piece, RookDirs, 1)
       [] piece.kind = "King" -> TileMoves(board, loc, piece, KingTiles)

\* --------------------------------------------- get_moves and is_checked

KingSquares(board, color) == {sq \in Squares : At(board, sq) = P("King", color)}

\* The scan is by i (the file) and then by j (the row); NoneLoc is the panic.
get_king_location(board, color) ==
  LET ks == KingSquares(board, color)
  IN IF ks = {} THEN NoneLoc
     ELSE CHOOSE k \in ks : \A o \in ks : k[1] < o[1] \/ (k[1] = o[1] /\ k[2] <= o[2])

\* The probe kinds with the king among them.
ProbeKinds_WithKing == <<"Pawn", "Rook", "Bishop", "Knight", "Queen", "King">>

ProbeKinds == <<"Pawn", "Rook", "Bishop", "Knight", "Queen">>

\* A scan in which a probe pawn finds only what stands diagonally ahead of it.
ProbeHits_PawnDiagonal(board, loc, color, piece_kind, possible_moves) ==
  IF piece_kind = "Pawn"
  THEN \E dx \in {-1, 1} :
         /\ ~is_out_of_bounds(Add(loc, <<dx, IF color = "Black" THEN 1 ELSE -1>>))
         /\ At(board, Add(loc, <<dx, IF color = "Black" THEN 1 ELSE -1>>)) = P("Pawn", Opposite(color))
  ELSE \E i \in 1..Len(possible_moves) :
         /\ ~is_out_of_bounds(Add(loc, possible_moves[i]))
         /\ At(board, Add(loc, possible_moves[i])) # None
         /\ At(board, Add(loc, possible_moves[i])).kind = piece_kind
         /\ At(board, Add(loc, possible_moves[i])).color # color

\* The inner loop of is_checked: some move of the probe piece ends on an
\* opposing piece of the probe's kind.
ProbeHits(board, loc, color, piece_kind, possible_moves) ==
  \E i \in 1..Len(possible_moves) :
    LET new_loc == Add(loc, possible_moves[i])
    IN /\ ~is_out_of_bounds(new_loc)
       /\ At(board, new_loc) # None
       /\ At(board, new_loc).kind = piece_kind
       /\ At(board, new_loc).color # color

RECURSIVE get_moves(_, _), is_checked(_, _), Probe(_, _, _, _, _)

\* The copy of the game the filter tries a move on: the flag cleared, the
\* piece of loc written on new_loc, loc emptied.
SpeculativeGame(loc, game, new_loc) ==
  [game EXCEPT !.is_checked = FALSE, !.board = Put(Put(game.board, new_loc, At(game.board, loc)), loc, None)]

\* The colour the filter hands to is_checked: the opposite of the mover's.
FilterColor(loc, game) == Opposite(At(game.board, loc).color)

\* What the closure returns on the answer r of is_checked.
FilterVerdict(r) == [panic |-> r.panic, keep |-> ~r.panic /\ ~r.ret]

\* The closure of the check filter for one move mv of the piece on loc.
FilterKeep(loc, game, mv) ==
  IF is_out_of_bounds(Add(loc, mv)) THEN [panic |-> FALSE, keep |-> FALSE]
  ELSE FilterVerdict(is_checked(SpeculativeGame(loc, game, Add(loc, mv)), FilterColor(loc, game)))

RECURSIVE Kept(_, _, _)
Kept(moves, verdicts, i) ==
  IF i > Len(moves) THEN <<>>
  ELSE (IF verdicts[i].keep THEN <<moves[i]>> ELSE <<>>) \o Kept(moves, verdicts, i + 1)

\* filter(..).collect(): the moves kept, in order; a panic of any closure
\* is a panic of get_moves.
Collect(moves, verdicts) ==
  [panic |-> \E i \in 1..Len(moves) : verdicts[i].panic, moves |-> Kept(moves, verdicts, 1)]

\* The end of get_moves: the filter, when and only when the flag is set.
Filtered(loc, game, moves) ==
  IF game.is_checked
  THEN Collect(moves, [i \in 1..Len(moves) |-> FilterKeep(loc, game, moves[i])])
  ELSE [panic |-> FALSE, moves |-> moves]

\* get_moves(loc, game): [panic, moves]. It panics on an empty square and when
\* a call of is_checked made by the filter panics.
get_moves(loc, game) ==
  IF At(game.board, loc) = None THEN [panic |-> TRUE, moves |-> <<>>]
  ELSE Filtered(loc, game, PatternMoves(loc, game))

\* The game with the probe piece written on the king's square.
ProbeGame(game, loc, piece_kind, color) == [game EXCEPT !.board = Put(game.board, loc, P(piece_kind, color))]

\* A turn of the loop that returns on a hit with the probe piece still on the
\* king's square.
ProbeStep_NoRestore(g, color, loc, piece, i, possible_moves) ==
  IF possible_moves.panic THEN [panic |-> TRUE, ret |-> FALSE, game |-> g]
  ELSE IF ProbeHits(g.board, loc, color, ProbeKinds[i], possible_moves.moves)
       THEN [panic |-> FALSE, ret |-> TRUE, game |-> [g EXCEPT !.is_checked = TRUE]]
       ELSE Probe(g, color, loc, piece, i + 1)

\* One turn of the loop of is_checked, possible_moves being the moves of the
\* i-th probe piece on g.
ProbeStep(g, color, loc, piece, i, possible_moves) ==
  IF possible_moves.panic THEN [panic |-> TRUE, ret |-> FALSE, game |-> g]
  ELSE IF ProbeHits(g.board, loc, color, ProbeKinds[i], possible_moves.moves)
       THEN [panic |-> FALSE, ret |-> TRUE, game |-> [g EXCEPT !.board = Put(g.board, loc, piece), !.is_checked = TRUE]]
       ELSE Probe(g, color, loc, piece, i + 1)

\* The loop of is_checked over the probe kinds, from the i-th on; `piece` is
\* what stood on the king's square on entry.
Probe(game, color, loc, piece, i) ==
  IF i > Len(ProbeKinds) THEN [panic |-> FALSE, ret |-> FALSE, game |-> [game EXCEPT !.board = Put(game.board, loc, piece)]]
  ELSE ProbeStep(ProbeGame(game, loc, ProbeKinds[i], color), color, loc, piece, i, get_moves(loc, ProbeGame(game, loc, ProbeKinds[i], color)))

CheckFrom(game, color, loc) ==
  IF loc = NoneLoc THEN [panic |-> TRUE, ret |-> FALSE, game |-> game]
  ELSE Probe(game, color, loc, At(game.board, loc), 1)

\* is_checked(game, color): [panic, ret, game], game being the Game it leaves.
is_checked(game, color) == CheckFrom(game, color, get_king_location(game.board, color))

\* ------------------------------------------------ is_valid_move, move_to

\* moves.contains(&diff), on the answer gm of get_moves.
Contains(gm, diff) ==
  [panic |-> gm.panic, ret |-> ~gm.panic /\ \E i \in 1..Len(gm.moves) : gm.moves[i] = diff]

\* is_valid_move looking up from - to in place of to - from.
is_valid_move_Reversed(self, from, to, game) ==
  IF At(game.board, to) # None /\ At(game.board, to).color = self.color
  THEN [panic |-> FALSE, ret |-> FALSE]
  ELSE Contains(get_moves(from, game), <<from[1] - to[1], from[2] - to[2]>>)

\* Piece::is_valid_move(self, from, to, game): [panic, ret].
is_valid_move(self, from, to, game) ==
  IF At(game.board, to) # None /\ At(game.board, to).color = self.color
  THEN [panic |-> FALSE, ret |-> FALSE]
  ELSE Contains(get_moves(from, game), <<to[1] - from[1], to[2] - from[2]>>)

Abs(n) == IF n < 0 THEN -n ELSE n

dist(a, b) == Abs(a[2] - b[2]) + Abs(a[1] - b[1])

\* The en-passant target move_to leaves.
EnPassantAfter(from, to, game) ==
  IF At(game.board, from).kind = "Pawn" /\ dist(from, to) = 2 THEN to ELSE NoneLoc

\* move_to that leaves the check flag as it finds it.
move_to_KeepsFlag(from, to, game) ==
  [board |-> Put(Put(game.board, to, At(game.board, from)), from, None),
   cur_en_passant |-> EnPassantAfter(from, to, game),
   is_checked |-> game.is_checked]

move_to(from, to, game) ==
  [board |-> Put(Put(game.board, to, At(game.board, from)), from, None),
   cur_en_passant |-> EnPassantAfter(from, to, game),
   is_checked |-> FALSE]

\* The pieces of a colour, the squares has_no_valid_moves asks get_moves about.
SquaresOf(board, color) == {sq \in Squares : At(board, sq) # None /\ At(board, sq).color = color}

\* The number the outer count() yields: one per row of the board, whatever the
\* inner counts are.
OuterCount(board) == Len(board)

\* has_no_valid_moves(game, color): [panic, ret]. Both count() calls run the
\* closures, so get_moves is called for every piece of the colour.
has_no_valid_moves(game, color) ==
  [panic |-> \E sq \in SquaresOf(game.board, color) : get_moves(sq, game).panic,
   ret |-> OuterCount(game.board) = 0]

\* show_moves(from, to, game): whether it panics (it prints, and changes nothing).
show_moves_panics(from, game) == get_moves(from, game).panic

\* ---------------------------------------------------------- the main loop

VARIABLES game, curr_color, status, outcome, last_from, last_to, moved, captured, ply, answer

vars == <<game, curr_color, status, outcome, last_from, last_to, moved, captured, ply, answer>>

\* What a function called on its own answered: its name, the square it was
\* asked about, and [panic, ret, moves] as far as it has them.
Answer(fn, loc, panic, ret, moves) == [fn |-> fn, loc |-> loc, panic |-> panic, ret |-> ret, moves |-> moves]

NoAnswer == Answer("none", NoneLoc, FALSE, FALSE, <<>>)

\* The squares a player types in this model.
InputSquares == {<<3, 7>>, <<3, 3>>, <<3, 1>>, <<4, 7>>, <<4, 6>>, <<4, 4>>, <<4, 3>>, <<4, 1>>, <<4, 0>>, <<5, 2>>, <<5, 1>>, <<7, 3>>}

\* A location outside the board, as move2loc yields for a text such as "i1".
OffBoard == <<8, 7>>

InputLocs == InputSquares \cup {OffBoard}

Rejected == {"InvalidLocationError", "LocationError", "PlayerError", "InvalidMoveError"}

Result(g, cc, st, oc) == [game |-> g, curr_color |-> cc, status |-> st, outcome |-> oc]

\* The end of a turn, on the answers r of is_checked and h of
\* has_no_valid_moves for the new turn owner nc.
AfterNoMoves(r, nc, h) ==
  IF h.panic THEN Result(r.game, nc, "aborted", "panic")
  ELSE IF r.ret
       THEN IF h.ret THEN Result(r.game, nc, "checkmate", "moved") ELSE Result(r.game, nc, "playing", "moved")
       ELSE IF h.ret THEN Result(r.game, nc, "stalemate", "moved") ELSE Result(r.game, nc, "playing", "moved")

AfterCheck(r, nc) ==
  IF r.panic THEN Result(r.game, nc, "aborted", "panic")
  ELSE AfterNoMoves(r, nc, has_no_valid_moves(r.game, nc))

\* What follows move_to in one turn of the loop: the turn changes, the check
\* flag of the new turn owner is computed, and the game may end.
AfterMove(g1, cc) == AfterCheck(is_checked(g1, Opposite(cc)), Opposite(cc))

\* A turn in which the capture of a king is a move like any other.
Validated_NoKingBranch(g, cc, from, to, v) ==
  IF v.panic THEN Result(g, cc, "aborted", "panic")
  ELSE IF ~v.ret
       THEN IF show_moves_panics(from, g) THEN Result(g, cc, "aborted", "panic")
            ELSE Result(g, cc, "playing", "InvalidMoveError")
       ELSE AfterMove(move_to(from, to, g), cc)

\* A turn in which the loop goes on after the capture of a king.
Validated_KingCaptureGoesOn(g, cc, from, to, v) ==
  IF v.panic THEN Result(g, cc, "aborted", "panic")
  ELSE IF ~v.ret
       THEN IF show_moves_panics(from, g) THEN Result(g, cc, "aborted", "panic")
            ELSE Result(g, cc, "playing", "InvalidMoveError")
       ELSE IF At(g.board, to) # None /\ At(g.board, to).kind = "King"
            THEN Result(move_to(from, to, g), cc, "playing", "moved")
            ELSE AfterMove(move_to(from, to, g), cc)

\* The turn from the answer v of is_valid_move on.
Validated(g, cc, from, to, v) ==
  IF v.panic THEN Result(g, cc, "aborted", "panic")
  ELSE IF ~v.ret
       THEN IF show_moves_panics(from, g) THEN Result(g, cc, "aborted", "panic")
            ELSE Result(g, cc, "playing", "InvalidMoveError")
       ELSE IF At(g.board, to) # None /\ At(g.board, to).kind = "King"
            THEN Result(move_to(from, to, g), cc, "won", "moved")
            ELSE AfterMove(move_to(from, to, g), cc)

\* A turn in which a request for an empty square passes the turn.
main_turn_EmptySquarePasses(g, cc, from, to) ==
  IF is_out_of_bounds(from) \/ is_out_of_bounds(to) THEN Result(g, cc, "playing", "InvalidLocationError")
  ELSE IF At(g.board, from) = None THEN Result(g, Opposite(cc), "playing", "LocationError")
  ELSE IF At(g.board, from).color # cc THEN Result(g, cc, "playing", "PlayerError")
  ELSE Validated(g, cc, from, to, is_valid_move(At(g.board, from), from, to, g))

\* One turn of the loop of main on the request "from to".
main_turn(g, cc, from, to) ==
  IF is_out_of_bounds(from) \/ is_out_of_bounds(to) THEN Result(g, cc, "playing", "InvalidLocationError")
  ELSE IF At(g.board, from) = None THEN Result(g, cc, "playing", "LocationError")
  ELSE IF At(g.board, from).color # cc THEN Result(g, cc, "playing", "PlayerError")
  ELSE Validated(g, cc, from, to, is_valid_move(At(g.board, from), from, to, g))

\* What "help loc" comes to.
help_turn(g, loc) ==
  IF is_out_of_bounds(loc) THEN "InvalidLocationError"
  ELSE IF get_moves(loc, g).panic THEN "panic" ELSE "help"

Init ==
  /\ game = [board |-> BOARD, cur_en_passant |-> NoneLoc, is_checked |-> FALSE]
  /\ curr_color = "White"
  /\ status = "playing"
  /\ outcome = "start"
  /\ last_from = NoneLoc
  /\ last_to = NoneLoc
  /\ moved = None
  /\ captured = None
  /\ ply = 0
  /\ answer = NoAnswer

\* A line "from to" is read and handled. last_from, last_to, moved and
\* captured record the move that move_to applied, if one was.
Request(from, to) ==
  /\ status = "playing"
  /\ \E res \in {main_turn(game, curr_color, from, to)} :
       \E applied \in {res.outcome = "moved" \/ (res.outcome = "panic" /\ res.game # game)} :
         /\ game' = res.game
         /\ curr_color' = res.curr_color
         /\ status' = res.status
         /\ outcome' = res.outcome
         /\ last_from' = IF applied THEN from ELSE NoneLoc
         /\ last_to' = IF applied THEN to ELSE NoneLoc
         /\ moved' = IF applied THEN At(game.board, from) ELSE None
         /\ captured' = IF applied THEN At(game.board, to) ELSE None
         /\ ply' = IF applied THEN ply + 1 ELSE ply
         /\ answer' = answer

\* A request, while the model follows the game.
RequestMove(from, to) == ply < MaxPly /\ Request(from, to)

\* A line "help loc" is read: show_moves prints the moves of the square.
Help(loc) ==
  /\ status = "playing"
  /\ \E oc \in {help_turn(game, loc)} :
       /\ outcome' = oc
       /\ status' = IF oc = "panic" THEN "aborted" ELSE "playing"
  /\ last_from' = NoneLoc
  /\ last_to' = NoneLoc
  /\ moved' = None
  /\ captured' = None
  /\ UNCHANGED <<game, curr_color, ply, answer>>

Next ==
  \/ \E from \in InputLocs, to \in InputLocs : RequestMove(from, to)
  \/ \E loc \in InputLocs : Help(loc)

Spec == Init /\ [][Next]_vars

\* ------------------------------------------- the same loop, played longer

\* Fewer squares are typed and more plies are followed.
DeepSquares == {<<3, 7>>, <<7, 3>>, <<4, 7>>, <<4, 6>>, <<4, 4>>, <<4, 3>>, <<4, 1>>, <<5, 1>>, <<5, 2>>}

DeepMove(from, to) == ply < MaxDeepPly /\ Request(from, to)

NextDeep == \E from \in DeepSquares, to \in DeepSquares : DeepMove(from, to)

SpecDeep == Init /\ [][NextDeep]_vars

\* ------------------------------------------- the functions, on positions

\* The second specification calls is_checked and get_moves on positions of a
\* later game: both kings and up to two more pieces, as move_to leaves them
\* (the flag clear), before main asks is_checked about the side to move.

EmptyBoard == [j \in 1..8 |-> [i \in 1..8 |-> None]]

\* The kings' squares, with the side to move: the king of that side stands on
\* the home rank of its pawns.
PosKings == {[wk |-> <<4, 6>>, bk |-> <<1, 0>>, turn |-> "White"], [wk |-> <<6, 7>>, bk |-> <<4, 1>>, turn |-> "Black"]}

PosSquares == {<<4, 7>>, <<4, 5>>, <<4, 4>>, <<4, 3>>, <<4, 2>>, <<4, 0>>, <<2, 4>>}

PosPiecesA == {P(k, c) : k \in {"Knight", "Bishop", "Rook", "Queen"}, c \in Colors}

PosPiecesB == {P("Pawn", c) : c \in Colors}

Absent == [piece |-> None, sq |-> NoneLoc]

PosChoicesA == {Absent} \cup {[piece |-> p, sq |-> sq] : p \in PosPiecesA, sq \in PosSquares}

PosChoicesB == {Absent} \cup {[piece |-> p, sq |-> sq] : p \in PosPiecesB, sq \in PosSquares}

\* No pawn stands behind the home rank of its colour.
PawnRowOk(x) == x.piece.kind = "Pawn" => (IF x.piece.color = "White" THEN x.sq[2] <= 6 ELSE x.sq[2] >= 1)

PlaceExtra(board, x) == IF x = Absent THEN board ELSE Put(board, x.sq, x.piece)

PosBoard(k, a, b) == PlaceExtra(PlaceExtra(Put(Put(EmptyBoard, k.wk, P("King", "White")), k.bk, P("King", "Black")), a), b)

InitPos ==
  /\ \E k \in PosKings, a \in PosChoicesA, b \in PosChoicesB :
       /\ PawnRowOk(a) /\ PawnRowOk(b)
       /\ {a.sq, b.sq} \cap {k.wk, k.bk} = {}
       /\ (a.sq = b.sq => a = Absent)
       /\ game = [board |-> PosBoard(k, a, b), cur_en_passant |-> NoneLoc, is_checked |-> FALSE]
       /\ curr_color = k.turn
  /\ status = "probing"
  /\ outcome = "start"
  /\ last_from = NoneLoc
  /\ last_to = NoneLoc
  /\ moved = None
  /\ captured = None
  /\ ply = 0
  /\ answer = NoAnswer

\* main's call is_checked(&mut game, curr_color); the flag is clear on entry,
\* as it is at each call of the source.
CallIsChecked ==
  /\ status = "probing"
  /\ ~game.is_checked
  /\ \E r \in {is_checked(game, curr_color)} :
       /\ game' = r.game
       /\ answer' = Answer("is_checked", get_king_location(game.board, curr_color), r.panic, r.ret, <<>>)
  /\ UNCHANGED <<curr_color, status, outcome, last_from, last_to, moved, captured, ply>>

\* A call get_moves(loc, &game) on a square that holds a piece.
CallGetMoves(loc) ==
  /\ status = "probing"
  /\ At(game.board, loc) # None
  /\ \E gm \in {get_moves(loc, game)} : answer' = Answer("get_moves", loc, gm.panic, FALSE, gm.moves)
  /\ UNCHANGED <<game, curr_color, status, outcome, last_from, last_to, moved, captured, ply>>

NextPos ==
  \/ CallIsChecked
  \/ \E loc \in Squares : CallGetMoves(loc)

SpecPos == InitPos /\ [][NextPos]_vars

\* ------------------------------------------------------------ the claims

Forward(color) == IF color = "Black" THEN 1 ELSE -1

HomeRow(color) == IF color = "Black" THEN 1 ELSE 8 - 2

\* A pawn's two-square forward advance from its home rank.
IsDoubleAdvance(piece, from, to) ==
  /\ piece.kind = "Pawn"
  /\ from[2] = HomeRow(piece.color)
  /\ to = <<from[1], from[2] + 2 * Forward(piece.color)>>

\* The squares the moves of an answer gm of get_moves lead to from loc.
Destinations(loc, gm) == {Add(loc, gm.moves[i]) : i \in 1..Len(gm.moves)}

SafeVerdict(r) == ~r.panic /\ ~r.ret

\* The side of colour c is not in check, by is_checked, after the piece of loc
\* went to dest.
OwnKingSafeAfter(loc, dest, g, c) == SafeVerdict(is_checked(move_to(loc, dest, g), c))

AllOwnKingSafe(loc, g, c) ==
  \A gm \in {get_moves(loc, g)} :
    ~gm.panic => \A dest \in Destinations(loc, gm) : ~is_out_of_bounds(dest) => OwnKingSafeAfter(loc, dest, g, c)

\* C1: whenever the side to move is flagged in check, every move get_moves
\* returns for a piece of that side leads to a position in which that side's
\* own king is not in check, as is_checked judges the position after the move.
C1_FilterKeepsOwnKingSafe ==
  (status = "playing" /\ game.is_checked) =>
    \A sq \in SquaresOf(game.board, curr_color) : AllOwnKingSafe(sq, game, curr_color)

NoMovesAt(gm) == ~gm.panic /\ gm.moves = <<>>

NoValidMovesExact(g, c) ==
  \A h \in {has_no_valid_moves(g, c)} :
    ~h.panic => (h.ret <=> \A sq \in SquaresOf(g.board, c) : NoMovesAt(get_moves(sq, g)))

\* C2: has_no_valid_moves(game, C) returns true exactly when get_moves returns
\* an empty list from every square that holds a piece of colour C.
C2_NoValidMovesIsExact ==
  status = "playing" => \A c \in Colors : NoValidMovesExact(game, c)

\* C3: a validated move onto the opponent's king is applied and ends the game
\* at once with the mover as winner: the turn is not changed, no check flag is
\* computed, nothing more is read; the game is won in no other way, and no
\* move captures a piece of the mover's colour.
C3_KingCaptureWins ==
  /\ (last_to # NoneLoc /\ captured.kind = "King") =>
       /\ status = "won"
       /\ outcome = "moved"
       /\ curr_color = moved.color
       /\ captured.color = Opposite(moved.color)
       /\ At(game.board, last_to) = moved
       /\ At(game.board, last_from) = None
       /\ ~game.is_checked
  /\ status = "won" => (captured.kind = "King" /\ ~ENABLED Next)
  /\ last_to # NoneLoc => captured.color # moved.color

C3_Witness == status = "won" /\ captured = P("King", "Black") /\ moved.color = "White"

\* The claim of C4 for the pawn, if there is one, that stands beside the
\* advanced pawn on the file dx away.
EnPassantFor(g, c, to, dx) ==
  (~is_out_of_bounds(<<to[1] + dx, to[2]>>) /\ At(g.board, <<to[1] + dx, to[2]>>) = P("Pawn", c)) =>
    get_moves(<<to[1] + dx, to[2]>>, g) = [panic |-> FALSE, moves |-> <<<<-dx, Forward(c)>>>>]

\* C4: after a pawn advanced two squares from its home rank, an opposing pawn
\* on an adjacent file at the rank of the advanced pawn has, on the next ply,
\* exactly one move, the en-passant capture vector.
C4_EnPassantNextPly ==
  (status = "playing" /\ outcome = "moved" /\ IsDoubleAdvance(moved, last_from, last_to)) =>
    \A dx \in {-1, 1} : EnPassantFor(game, curr_color, last_to, dx)

\* C5: after every applied move the en-passant target is the destination if
\* the move was a pawn's two-square forward advance, and is absent after every
\* other move.
C5_EnPassantTarget ==
  outcome = "moved" =>
    game.cur_en_passant = IF IsDoubleAdvance(moved, last_from, last_to) THEN last_to ELSE NoneLoc

ValidExactly(g, from, to, dests) ==
  \A v \in {is_valid_move(At(g.board, from), from, to, g)} :
    ~v.panic => (v.ret <=> (At(g.board, to).color # At(g.board, from).color /\ to \in dests))

\* The squares is_valid_move is tried from: on the starting position every
\* piece of the side to move, later the pieces a request of the model can name.
TriedFrom == IF ply = 0 THEN SquaresOf(game.board, curr_color) ELSE SquaresOf(game.board, curr_color) \cap InputSquares

\* C6: is_valid_move(piece, from, to, game) is true exactly when `to` holds no
\* piece of the mover's colour and to - from is a move of get_moves(from,
\* game); on the starting position this is tried for every pair (from, to).
C6_ValidMoveExact ==
  status = "playing" =>
    \A from \in TriedFrom : \A dests \in {Destinations(from, get_moves(from, game))} :
      \A to \in Squares : ValidExactly(game, from, to, dests)

\* A request was refused by is_valid_move while the side to move is flagged in
\* check, and another one of that side is valid.
C6_Witness ==
  /\ outcome = "InvalidMoveError"
  /\ game.is_checked
  /\ \E from \in SquaresOf(game.board, curr_color) : \E to \in Squares :
       is_valid_move(At(game.board, from), from, to, game).ret

\* C9: after a validated move is applied and the check flag of the next side
\* is computed, the destination holds the moved piece, the source is empty,
\* and get_moves from the destination does not panic.
C9_DestinationQueryable ==
  (status = "playing" /\ outcome = "moved") =>
    /\ At(game.board, last_to) = moved
    /\ At(game.board, last_from) = None
    /\ ~get_moves(last_to, game).panic

\* C10: a request that is rejected leaves the board, the en-passant target,
\* the check flag and the turn owner as they were.
C10_RejectedChangesNothing ==
  [][outcome' \in Rejected => (game' = game /\ curr_color' = curr_color /\ status' = status)]_vars

C10_Witness == outcome = "InvalidMoveError" /\ ply > 0 /\ game.is_checked

\* The squares strictly between two squares of one file.
BetweenOnFile(a, b) == {sq \in Squares : sq[1] = a[1] /\ ((a[2] < sq[2] /\ sq[2] < b[2]) \/ (b[2] < sq[2] /\ sq[2] < a[2]))}

\* An opposing rook on the file of the king on k, nothing between them.
RookFacesKing(board, c, k, sq) ==
  /\ At(board, sq) = P("Rook", Opposite(c))
  /\ sq[1] = k[1]
  /\ \A m \in BetweenOnFile(k, sq) : At(board, m) = None

\* No piece of the other colour has the square k among the moves of its
\* pattern: a scan of the attackers, one by one.
NoAttacker(g, c, k) ==
  \A sq \in SquaresOf(g.board, Opposite(c)) : k \notin Destinations(sq, [moves |-> PatternMoves(sq, g)])

WithoutPiece(g, sq) == [g EXCEPT !.board = Put(g.board, sq, None)]

RookCheckSymmetry(g, c, k) ==
  \A sq \in Squares :
    RookFacesKing(g.board, c, k, sq) =>
      /\ is_checked(g, c).ret
      /\ NoAttacker(WithoutPiece(g, sq), c, k) => ~is_checked(WithoutPiece(g, sq), c).ret

\* C7: with an opposing rook on the file of the king of colour C and nothing
\* between them is_checked(game, C) is true; with that rook taken away and no
\* other attacker of the king on the board it is false.
C7_RookOnFileSymmetry ==
  (status = "probing" /\ ~game.is_checked) =>
    \A c \in Colors : RookCheckSymmetry(game, c, get_king_location(game.board, c))

Scale(k, d) == <<k * d[1], k * d[2]>>

\* The squares of one walk: on the board, every square before them empty, and
\* themselves empty or held by a piece of the other colour.
RayMoves(board, loc, piece, dirs) ==
  {Scale(k, dirs[n]) : <<k, n>> \in {kn \in (1..7) \X DOMAIN dirs :
     LET dest == Add(loc, Scale(kn[1], dirs[kn[2]]))
     IN /\ ~is_out_of_bounds(dest)
        /\ \A j \in 1..(kn[1] - 1) : At(board, Add(loc, Scale(j, dirs[kn[2]]))) = None
        /\ At(board, dest).color # piece.color}}

\* The fixed offsets that stay on the board and reach no piece of the colour.
OffsetMoves(board, loc, piece, tiles) ==
  {tiles[n] : n \in {m \in DOMAIN tiles : ~is_out_of_bounds(Add(loc, tiles[m])) /\ At(board, Add(loc, tiles[m])).color # piece.color}}

ExpectedMoves(board, loc, piece) ==
  CASE piece.kind = "Bishop" -> RayMoves(board, loc, piece, DiagDirs)
    [] piece.kind = "Rook" -> RayMoves(board, loc, piece, RookDirs)
    [] piece.kind = "Queen" -> RayMoves(board, loc, piece, DiagDirs \o RookDirs)
    [] piece.kind = "Knight" -> OffsetMoves(board, loc, piece, KnightTiles)
    [] piece.kind = "King" -> OffsetMoves(board, loc, piece, KingTiles)

Range(seq) == {seq[i] : i \in DOMAIN seq}

PatternIsExact(g, loc) ==
  \A gm \in {get_moves(loc, g)} :
    /\ ~gm.panic
    /\ Range(gm.moves) = ExpectedMoves(g.board, loc, At(g.board, loc))
    /\ Cardinality(Range(gm.moves)) = Len(gm.moves)

\* C8: with the flag clear, get_moves of a bishop, rook or queen is exactly,
\* for each direction of the kind, every empty square up to the first occupied
\* one or the edge, and that occupied square if and only if its piece is of
\* the other colour; get_moves of a knight or king is exactly the fixed
\* offsets that are on the board and hold no piece of the mover's colour.
C8_PatternsExact ==
  (status = "probing" /\ ~game.is_checked) =>
    \A loc \in Squares : At(game.board, loc).kind \in {"Bishop", "Rook", "Queen", "Knight", "King"} => PatternIsExact(game, loc)

\* get_moves answered for a queen whose walks meet a piece of her colour, a
\* piece of the other colour and the edge.
C8_Witness ==
  /\ answer.fn = "get_moves"
  /\ ~game.is_checked
  /\ At(game.board, answer.loc).kind = "Queen"
  /\ \E d \in Range(answer.moves) : At(game.board, Add(answer.loc, d)) # None
  /\ \E sq \in SquaresOf(game.board, At(game.board, answer.loc).color) :
       \E k \in 1..7 : \E n \in DOMAIN RookDirs : sq = Add(answer.loc, Scale(k, RookDirs[n])) /\ Scale(k, RookDirs[n]) \notin Range(answer.moves)

OneKing(board, c) == Cardinality(KingSquares(board, c)) = 1

\* C11: in every state the game reaches from the starting position by
\* validated moves, as long as it has not ended by the capture of a king, the
\* board holds exactly one king of each colour.
C11_OneKingEach ==
  status # "won" => \A c \in Colors : OneKing(game.board, c)

\* The game goes on after a king has moved and after a capture.
C11_Witness ==
  /\ status = "playing"
  /\ ply >= 4
  /\ game.board[8][5] # P("King", "White")
  /\ Cardinality(SquaresOf(game.board, "White") \cup SquaresOf(game.board, "Black")) < 32

\* What is_checked reports for colour c on the position of g, called as main
\* calls it: after move_to, with the flag clear.
Attacked(g, c) == is_checked([g EXCEPT !.is_checked = FALSE], c)

\* C12: wherever the loop waits for the next request, the flag is set if and
\* only if is_checked reports the king of the side to move as attacked in the
\* position; a flag set on one ply is not there on a later ply on which the
\* side to move is not attacked.
C12_FlagIffChecked ==
  status = "playing" => \A r \in {Attacked(game, curr_color)} : ~r.panic /\ game.is_checked = r.ret

\* White is to move, unflagged, right after the ply on which Black, checked by
\* the queen on h5 through the empty f7, was flagged and made a move.
C12_Witness ==
  /\ status = "playing"
  /\ outcome = "moved"
  /\ ply = 4
  /\ curr_color = "White"
  /\ ~game.is_checked
  /\ At(game.board, <<7, 3>>) = P("Queen", "White")
  /\ At(game.board, <<5, 1>>) = None
  /\ At(game.board, <<4, 0>>) = P("King", "Black")

\* The move d of the piece on loc ends on the board, on no piece of its colour.
LandsWell(board, loc, d) ==
  /\ ~is_out_of_bounds(Add(loc, d))
  /\ At(board, Add(loc, d)).color # At(board, loc).color

\* C13: every displacement get_moves returns, for every kind of piece, pawns
\* included, leads to a square on the board that holds no piece of the
\* mover's colour.
C13_MovesLandWell ==
  (answer.fn = "get_moves" /\ ~answer.panic) =>
    \A i \in 1..Len(answer.moves) : LandsWell(game.board, answer.loc, answer.moves[i])

\* ------------------------------------ get_moves of a pawn, on Game values

\* The files and rows a pawn stands on, and the en-passant targets, of the
\* Game values get_moves is called on here.
PawnFiles == {0, 1, 4, 7}

PawnSquares == {sq \in Squares : sq[1] \in PawnFiles}

PawnTargets == {NoneLoc} \cup {sq \in Squares : sq[1] \in {1, 3, 4, 5} /\ sq[2] \in 2..5}

\* Where the kings stand on these boards.
PawnKings == [wk |-> <<4, 5>>, bk |-> <<1, 0>>]

\* A board with the two kings, a pawn of colour c on sq and, move_to having
\* left the target on the square of the piece that moved, a pawn of the other
\* colour on the target.
PawnBoard(c, sq, t) ==
  PlaceExtra(PlaceExtra(Put(Put(EmptyBoard, PawnKings.wk, P("King", "White")), PawnKings.bk, P("King", "Black")),
                        IF t = NoneLoc THEN Absent ELSE [piece |-> P("Pawn", Opposite(c)), sq |-> t]),
             [piece |-> P("Pawn", c), sq |-> sq])

InitPawn ==
  /\ \E c \in Colors, sq \in PawnSquares, t \in PawnTargets, turn \in Colors :
       /\ PawnRowOk([piece |-> P("Pawn", c), sq |-> sq])
       /\ t # sq
       /\ {sq, t} \cap {PawnKings.wk, PawnKings.bk} = {}
       /\ game = [board |-> PawnBoard(c, sq, t), cur_en_passant |-> t, is_checked |-> FALSE]
       /\ curr_color = turn
  /\ status = "probing"
  /\ outcome = "start"
  /\ last_from = NoneLoc
  /\ last_to = NoneLoc
  /\ moved = None
  /\ captured = None
  /\ ply = 0
  /\ answer = NoAnswer

NextPawn ==
  \/ \E loc \in PawnSquares : CallGetMoves(loc)
  \/ CallIsChecked

SpecPawn == InitPawn /\ [][NextPawn]_vars

\* The forward diagonals of a pawn on loc that are the en-passant target.
TargetDiagonals(g, loc, c) ==
  {d \in {<<-1, Forward(c)>>, <<1, Forward(c)>>} : g.cur_en_passant # NoneLoc /\ Add(loc, d) = g.cur_en_passant}

ForwardMoves(loc, c) ==
  IF loc[2] = HomeRow(c) THEN <<<<0, Forward(c)>>, <<0, 2 * Forward(c)>>>> ELSE <<<<0, Forward(c)>>>>

\* The answer of get_moves was for a pawn.
PawnAnswered == answer.fn = "get_moves" /\ ~game.is_checked /\ At(game.board, answer.loc).kind = "Pawn"

C15_NoAbortAfterMove ==
  ~(status = "aborted" /\ last_to # NoneLoc)

\* ------------------------------------- is_checked on boards without pawns

\* The kings stand next to each other, or far apart.
PieceKings == {[wk |-> <<4, 4>>, bk |-> <<4, 3>>], [wk |-> <<4, 4>>, bk |-> <<1, 0>>]}

\* Where a first piece stands: on the file, a diagonal and a knight's jump of
\* the king on e4, next to it or further away.
AttackerSquares == {<<4, 7>>, <<4, 5>>, <<7, 7>>, <<5, 5>>, <<6, 5>>, <<0, 4>>}

\* Where a second piece stands: between the king and the first.
BlockerSquares == {<<4, 5>>, <<5, 5>>, <<2, 4>>}

AttackerChoices == {Absent} \cup {[piece |-> p, sq |-> sq] : p \in PosPiecesA, sq \in AttackerSquares}

BlockerChoices == {Absent} \cup {[piece |-> P(k, c), sq |-> sq] : k \in {"Knight", "Rook"}, c \in Colors, sq \in BlockerSquares}

InitPieces ==
  /\ \E k \in PieceKings, a \in AttackerChoices, b \in BlockerChoices, c \in Colors :
       /\ (a.sq = b.sq => b = Absent)
       /\ game = [board |-> PosBoard(k, a, b), cur_en_passant |-> NoneLoc, is_checked |-> FALSE]
       /\ curr_color = c
  /\ status = "probing"
  /\ outcome = "start"
  /\ last_from = NoneLoc
  /\ last_to = NoneLoc
  /\ moved = None
  /\ captured = None
  /\ ply = 0
  /\ answer = NoAnswer

\* ------------------- the earlier revision (src/main.rs): the sliding walks

\* A stopping square read as the square of the piece itself.
EarlierStop_ReadsSquare(board, new_loc, piece) ==
  [panic |-> FALSE, capture |-> At(board, new_loc).color # piece.color]

\* The test after a walk stopped on the board:
\* board[new_loc.1][new_loc.1].clone().unwrap().color != piece.color.
EarlierStop(board, new_loc, piece) ==
  IF At(board, <<new_loc[2], new_loc[2]>>) = None THEN [panic |-> TRUE, capture |-> FALSE]
  ELSE [panic |-> FALSE, capture |-> At(board, <<new_loc[2], new_loc[2]>>).color # piece.color]

EarlierPush(change, w) == [panic |-> w.panic, moves |-> <<change>> \o w.moves]

EarlierEnd(change, s) == [panic |-> s.panic, moves |-> IF s.capture THEN <<change>> ELSE <<>>]

\* One direction of a walk of the earlier revision: [panic, moves].
RECURSIVE EarlierWalk(_, _, _, _, _)
EarlierWalk(board, loc, piece, dir, change) ==
  IF ~is_out_of_bounds(Add(loc, change)) /\ At(board, Add(loc, change)) = None
  THEN EarlierPush(change, EarlierWalk(board, loc, piece, dir, Add(change, dir)))
  ELSE IF is_out_of_bounds(Add(loc, change)) THEN [panic |-> FALSE, moves |-> <<>>]
       ELSE EarlierEnd(change, EarlierStop(board, Add(loc, change), piece))

EarlierJoin(a, b) == [panic |-> a.panic \/ b.panic, moves |-> a.moves \o b.moves]

RECURSIVE EarlierSlide(_, _, _, _, _)
EarlierSlide(board, loc, piece, dirs, i) ==
  IF i > Len(dirs) THEN [panic |-> FALSE, moves |-> <<>>]
  ELSE EarlierJoin(EarlierWalk(board, loc, piece, dirs[i], dirs[i]), EarlierSlide(board, loc, piece, dirs, i + 1))

\* get_moves(loc, board) of the earlier revision for a bishop, rook or queen.
EarlierGetMoves(loc, board) ==
  CASE At(board, loc).kind = "Bishop" -> EarlierSlide(board, loc, At(board, loc), DiagDirs, 1)
    [] At(board, loc).kind = "Rook" -> EarlierSlide(board, loc, At(board, loc), RookDirs, 1)
    [] At(board, loc).kind = "Queen" -> EarlierJoin(EarlierSlide(board, loc, At(board, loc), DiagDirs, 1), EarlierSlide(board, loc, At(board, loc), RookDirs, 1))

\* A call of the earlier revision's get_moves on the board of the game, for a
\* bishop, rook or queen.
CallEarlierGetMoves(loc) ==
  /\ status = "probing"
  /\ At(game.board, loc).kind \in {"Bishop", "Rook", "Queen"}
  /\ \E gm \in {EarlierGetMoves(loc, game.board)} : answer' = Answer("earlier_get_moves", loc, gm.panic, FALSE, gm.moves)
  /\ UNCHANGED <<game, curr_color, status, outcome, last_from, last_to, moved, captured, ply>>

NextPieces ==
  \/ CallIsChecked
  \/ \E loc \in AttackerSquares : CallEarlierGetMoves(loc)

SpecPieces == InitPieces /\ [][NextPieces]_vars

NoPawns(board) == \A sq \in Squares : At(board, sq).kind # "Pawn"

\* A direct scan of the attackers: some knight, bishop, rook or queen of the
\* other colour has the square k among its own moves.
PieceAttacks(g, c, k) ==
  \E sq \in SquaresOf(g.board, Opposite(c)) :
    /\ At(g.board, sq).kind \in {"Knight", "Bishop", "Rook", "Queen"}
    /\ k \in Destinations(sq, [moves |-> PatternMoves(sq, g)])

\* C16: on a board with one king of colour C and no pawns, is_checked(game, C)
\* is true if and only if some opposing knight, bishop, rook or queen has the
\* king's square among its own moves; an opposing king next to the king does
\* not by itself give check.
C16_CheckIsDirectScan ==
  (status = "probing" /\ ~game.is_checked /\ NoPawns(game.board)) =>
    \A c \in Colors : \A r \in {is_checked(game, c)} :
      OneKing(game.board, c) => (~r.panic /\ (r.ret <=> PieceAttacks(game, c, get_king_location(game.board, c))))

\* is_checked answered false for the king on e4 with the other king next to
\* it and an opposing queen on its file behind a blocker.
C16_Witness ==
  /\ answer.fn = "is_checked"
  /\ ~answer.ret
  /\ answer.loc = <<4, 4>>
  /\ At(game.board, <<4, 3>>) = P("King", "Black")
  /\ At(game.board, <<4, 7>>) = P("Queen", "Black")
  /\ At(game.board, <<4, 5>>) # None

\* A pawn of the other colour stands where it attacks the square k of the
\* king of colour c: diagonally ahead of the king, as the king's side moves.
PawnAttacks(g, c, k) ==
  \E dx \in {-1, 1} :
    /\ ~is_out_of_bounds(Add(k, <<dx, Forward(c)>>))
    /\ At(g.board, Add(k, <<dx, Forward(c)>>)) = P("Pawn", Opposite(c))

\* A pawn of the other colour stands straight ahead of the king of colour c
\* on k: one square, or two squares when the king is on the pawn home rank of
\* its colour.
PawnAhead(g, c, k) ==
  \E n \in (IF k[2] = HomeRow(c) THEN {1, 2} ELSE {1}) :
    /\ ~is_out_of_bounds(Add(k, <<0, n * Forward(c)>>))
    /\ At(g.board, Add(k, <<0, n * Forward(c)>>)) = P("Pawn", Opposite(c))

\* The pieces of the other colour are its king and pawns only.
OnlyPawnsOppose(g, c) == \A sq \in SquaresOf(g.board, Opposite(c)) : At(g.board, sq).kind \in {"King", "Pawn"}

PawnVerdicts(g, c, k) ==
  \A r \in {is_checked(g, c)} :
    /\ ~r.panic
    /\ (PawnAttacks(g, c, k) /\ ~PawnAhead(g, c, k) /\ TargetDiagonals(g, k, c) = {}) => ~r.ret
    /\ (PawnAhead(g, c, k) /\ TargetDiagonals(g, k, c) = {}) => r.ret

\* C17: the verdict of is_checked on pawns is not that of pawn attacks. With
\* only pawns opposing the king of colour C, a pawn that attacks the king's
\* square diagonally does not make is_checked return true, and a pawn
\* straight ahead of the king on its file (one square, or two from the pawn
\* home rank), which attacks nothing, makes it return true; this where no
\* square diagonally ahead of the king is the en-passant target.
C17_PawnProbeUnsound ==
  (status = "probing" /\ ~game.is_checked) =>
    \A c \in Colors : OnlyPawnsOppose(game, c) => PawnVerdicts(game, c, get_king_location(game.board, c))

\* is_checked answered false for the Black king on b8 attacked by the pawn on
\* a7, on a board where the only Black piece beside the king is the pawn on
\* e4, straight ahead of the White king on e3, for which is_checked is true.
C17_Witness ==
  /\ answer = Answer("is_checked", <<1, 0>>, FALSE, FALSE, <<>>)
  /\ ~game.is_checked
  /\ SquaresOf(game.board, "White") = {<<4, 5>>, <<0, 1>>}
  /\ At(game.board, <<0, 1>>) = P("Pawn", "White")
  /\ SquaresOf(game.board, "Black") = {<<1, 0>>, <<4, 4>>}
  /\ At(game.board, <<4, 4>>) = P("Pawn", "Black")
  /\ is_checked(game, "White").ret

\* What a call of is_checked that returned r left of the game g it was given.
FrameKept(g, r) ==
  /\ r.game.board = g.board
  /\ r.game.cur_en_passant = g.cur_en_passant
  /\ r.game.is_checked = (r.ret \/ g.is_checked)

FewPieces(board) == Cardinality(SquaresOf(board, "White") \cup SquaresOf(board, "Black")) <= 3

FrameKeptFrom(g, c) == \A r \in {is_checked(g, c)} : ~r.panic => FrameKept(g, r)

\* C18: is_checked(game, C) leaves every square of the board as it was on
\* entry on both of its return paths; it sets the flag when it returns true
\* and leaves the flag as it was when it returns false. The calls with the
\* flag clear on entry are those of every position, for both colours; the
\* calls with the flag set on entry are those for the side to move on the
\* boards that hold at most one piece beside the kings.
C18_IsCheckedFrame ==
  status = "probing" =>
    /\ \A c \in Colors : FrameKeptFrom([game EXCEPT !.is_checked = FALSE], c)
    /\ (answer = NoAnswer /\ FewPieces(game.board)) => FrameKeptFrom([game EXCEPT !.is_checked = TRUE], curr_color)

\* is_checked returned true: the flag is set and the king is back on its
\* square, where the probe pieces were written.
C18_Witness ==
  /\ answer.fn = "is_checked"
  /\ answer.ret
  /\ game.is_checked
  /\ At(game.board, answer.loc) = P("King", curr_color)
  /\ Cardinality(SquaresOf(game.board, Opposite(curr_color))) = 3

SliderDirs(kind) ==
  CASE kind = "Bishop" -> DiagDirs
    [] kind = "Rook" -> RookDirs
    [] kind = "Queen" -> DiagDirs \o RookDirs

\* The squares on which the walks of the slider on loc stop: the first
\* occupied square of each direction.
StopSquares(board, loc) ==
  {s \in Squares : \E n \in DOMAIN SliderDirs(At(board, loc).kind), k \in 1..7 :
     /\ s = Add(loc, Scale(k, SliderDirs(At(board, loc).kind)[n]))
     /\ At(board, s) # None
     /\ \A j \in 1..(k - 1) : At(board, Add(loc, Scale(j, SliderDirs(At(board, loc).kind)[n]))) = None}

\* The square the earlier revision reads for the stopping square s.
ReadFor(s) == <<s[2], s[2]>>

\* The piece read for s and the piece on s are alike of the slider's colour
\* or alike not of it.
SameVerdict(board, loc, s) ==
  (At(board, ReadFor(s)).color # At(board, loc).color) <=> (At(board, s).color # At(board, loc).color)

EarlierAnswered == answer.fn = "earlier_get_moves" /\ ~game.is_checked

\* C19: the canonical revision decides whether the stopping square of a
\* sliding walk is a capture from the piece on that square, the earlier one
\* from the square (y, y). For a bishop, rook or queen the earlier get_moves
\* aborts exactly when some walk stops on a square s for which (y, y) is
\* empty, and otherwise returns the canonical move list exactly when, for
\* every stopping square, the piece on (y, y) gives the verdict of the piece
\* on s; so the two differ only through stopping squares off the main
\* diagonal.
C19_EarlierReadsDiagonal ==
  EarlierAnswered =>
    \A stops \in {StopSquares(game.board, answer.loc)} :
      /\ answer.panic <=> \E s \in stops : At(game.board, ReadFor(s)) = None
      /\ ~answer.panic =>
           ((answer.moves = get_moves(answer.loc, game).moves) <=> \A s \in stops : SameVerdict(game.board, answer.loc, s))
      /\ (\A s \in stops : s[1] = s[2]) => (~answer.panic /\ answer.moves = get_moves(answer.loc, game).moves)

\* The earlier get_moves returned, without aborting, a list that is not the
\* canonical one, for a slider whose walk stops off the main diagonal.
C19_Witness ==
  /\ EarlierAnswered
  /\ ~answer.panic
  /\ answer.moves # get_moves(answer.loc, game).moves
  /\ \E s \in StopSquares(game.board, answer.loc) : s[1] # s[2]

====
